---- MODULE Spec2Model ----
(***************************************************************************)
(* Model of the /adapt admin endpoint (src/adapt.go).                      *)
(*                                                                         *)
(* Strings and byte slices are sequences of one-character strings, so that *)
(* suffix tests, index searches, slicing, lower-casing and trimming are    *)
(* computed the way the Go code computes them.                             *)
(***************************************************************************)
EXTENDS Integers, Sequences, FiniteSets, TLC

VARIABLES registry, reqs, pool, bufs, log, call

vars == <<registry, reqs, pool, bufs, log, call>>

(***************************************************************************)
(* Bounds of the model.                                                    *)
(***************************************************************************)
\* number of requests handled (concurrently) in one behaviour
NumReqs == 2
\* longest generated Content-Type string (besides the named samples)
MaxCtLen == 3

(***************************************************************************)
(* strings                                                                 *)
(***************************************************************************)
Lower == <<"a","b","c","d","e","f","g","h","i","j","k","l","m",
           "n","o","p","q","r","s","t","u","v","w","x","y","z">>
Upper == <<"A","B","C","D","E","F","G","H","I","J","K","L","M",
           "N","O","P","Q","R","S","T","U","V","W","X","Y","Z">>

Range(s) == { s[i] : i \in 1..Len(s) }

\* unicode.IsSpace, on the characters the model uses
IsSpace(c) == c \in {" ", "\t"}

\* mime.isTokenChar: a printable ASCII character that is no tspecial.
\* (Of the punctuation only + - . _ is kept; the double quote, which opens a
\* quoted parameter value, and the asterisk, which marks a continuation
\* parameter, are not in the alphabet.)
TokenChars ==
    Range(Lower) \cup Range(Upper)
      \cup {"0","1","2","3","4","5","6","7","8","9"}
      \cup {"+","-",".","_"}

ToLowerChar(c) ==
    IF \E i \in 1..26 : Upper[i] = c
    THEN Lower[CHOOSE i \in 1..26 : Upper[i] = c]
    ELSE c

\* strings.ToLower
ToLower(s) == [i \in 1..Len(s) |-> ToLowerChar(s[i])]

\* s[from:] with a 0-based Go index
SliceFrom(s, from) == SubSeq(s, from + 1, Len(s))

\* s[:to] with a 0-based Go index
SliceTo(s, to) == SubSeq(s, 1, to)

\* strings.Index(s, c) for a one-character needle: 0-based, -1 when absent
Index(s, c) ==
    IF \E i \in 1..Len(s) : s[i] = c
    THEN (CHOOSE i \in 1..Len(s) : s[i] = c /\ \A k \in 1..(i-1) : s[k] # c) - 1
    ELSE -1

\* strings.HasPrefix
HasPrefix(s, p) == Len(s) >= Len(p) /\ SubSeq(s, 1, Len(p)) = p

\* strings.HasSuffix
HasSuffix(s, suf) ==
    Len(s) >= Len(suf) /\ SubSeq(s, Len(s) - Len(suf) + 1, Len(s)) = suf

\* strings.TrimLeftFunc(s, unicode.IsSpace)
TrimLeft(s) ==
    IF \A i \in 1..Len(s) : IsSpace(s[i]) THEN <<>>
    ELSE SliceFrom(s, (CHOOSE i \in 1..Len(s) :
                          ~IsSpace(s[i]) /\ \A k \in 1..(i-1) : IsSpace(s[k])) - 1)

TrimRight(s) ==
    IF \A i \in 1..Len(s) : IsSpace(s[i]) THEN <<>>
    ELSE SliceTo(s, CHOOSE i \in 1..Len(s) :
                          ~IsSpace(s[i]) /\ \A k \in (i+1)..Len(s) : IsSpace(s[k]))

\* strings.TrimSpace
TrimSpace(s) == TrimRight(TrimLeft(s))

\* strings.Cut(s, ";"): the part before the first ";" (all of s without one)
CutBase(s) == IF Index(s, ";") < 0 THEN s ELSE SliceTo(s, Index(s, ";"))

(***************************************************************************)
(* mime.ParseMediaType (Go standard library), as called at adapt.go:101.   *)
(***************************************************************************)
\* mime.consumeToken: the longest prefix of token characters, and the rest
TokenLen(s) ==
    IF \A i \in 1..Len(s) : s[i] \in TokenChars THEN Len(s)
    ELSE (CHOOSE i \in 1..Len(s) :
             s[i] \notin TokenChars /\ \A k \in 1..(i-1) : s[k] \in TokenChars) - 1

consumeToken(s) == [token |-> SliceTo(s, TokenLen(s)), rest |-> SliceFrom(s, TokenLen(s))]

\* mime.checkMediaTypeDisposition: "" when the media type is accepted
checkMediaTypeDisposition(s) ==
    LET t == consumeToken(s) IN
    IF t.token = <<>> THEN "mime: no media type"
    ELSE IF t.rest = <<>> THEN ""
    ELSE IF ~HasPrefix(t.rest, <<"/">>) THEN "mime: expected slash after first token"
    ELSE LET u == consumeToken(SliceFrom(t.rest, 1)) IN
         IF u.token = <<>> THEN "mime: expected token after slash"
         ELSE IF u.rest # <<>> THEN "mime: unexpected content after media subtype"
         ELSE ""

\* mime.consumeMediaParam(v): ";" key "=" value. The key is <<>>, and the rest
\* is v itself, when v does not start with a parameter. The steps are chained
\* through operator parameters: each names a local of the Go function.
NoParam(v) == [key |-> <<>>, value |-> <<>>, rest |-> v]

\* value, rest2 := consumeValue(rest), for a value that is a token
paramValue(v, param, val) ==
    IF val.token = <<>> THEN NoParam(v)
    ELSE [key |-> ToLower(param), value |-> val.token, rest |-> val.rest]

\* the "=" after the key
paramEquals(v, param, rest) ==
    IF param = <<>> THEN NoParam(v)
    ELSE IF ~HasPrefix(rest, <<"=">>) THEN NoParam(v)
    ELSE paramValue(v, param, consumeToken(TrimLeft(SliceFrom(rest, 1))))

\* param, rest = consumeToken(rest)
paramKey(v, k) == paramEquals(v, k.token, TrimLeft(k.rest))

\* the ";" that starts a parameter
paramSemicolon(v, rest) ==
    IF ~HasPrefix(rest, <<";">>) THEN NoParam(v)
    ELSE paramKey(v, consumeToken(TrimLeft(SliceFrom(rest, 1))))

consumeMediaParam(v) == paramSemicolon(v, TrimLeft(v))

\* one iteration of the parameter loop of mime.ParseMediaType, on the loop's
\* state st: the text left, the parameters seen, the error, whether it ended.
\* p is what consumeMediaParam gave for the text left.
paramLoopParam(st, p) ==
    IF p.key = <<>>
    THEN IF TrimSpace(p.rest) = <<";">>
         THEN [st EXCEPT !.done = TRUE]
         ELSE [st EXCEPT !.done = TRUE, !.err = "mime: invalid media parameter"]
    ELSE IF \E q \in st.seen : q.key = p.key /\ q.value # p.value
    THEN [st EXCEPT !.done = TRUE, !.err = "mime: duplicate parameter name"]
    ELSE [st EXCEPT !.v = p.rest,
                    !.seen = @ \cup {[key |-> p.key, value |-> p.value]}]

\* v = strings.TrimLeftFunc(v, unicode.IsSpace); if len(v) == 0 { break }
paramLoopTrimmed(st, w) ==
    IF w = <<>> THEN [st EXCEPT !.done = TRUE]
    ELSE paramLoopParam(st, consumeMediaParam(w))

paramLoopStep(st) == IF st.done THEN st ELSE paramLoopTrimmed(st, TrimLeft(st.v))

\* the parameter loop: "" when every parameter parses. Each iteration that
\* goes on consumes at least one character, so Len(v) + 1 iterations end it.
parseParams(v) ==
    LET loop[k \in 0..(Len(v) + 1)] ==
            IF k = 0 THEN [v |-> v, seen |-> {}, err |-> "", done |-> FALSE]
            ELSE paramLoopStep(loop[k - 1])
    IN  loop[Len(v) + 1].err

MimeFail(msg) == [mediatype |-> <<>>, err |-> msg]

\* the returns of mime.ParseMediaType, given the media type, the error of
\* checkMediaTypeDisposition and the error of the parameter loop.
\* (The media type returned beside ErrInvalidMediaParameter is not kept: the
\* caller drops it when err is set.)
parseResult(mediatype, e1, e2) ==
    IF e1 # "" THEN MimeFail(e1)
    ELSE IF e2 # "" THEN MimeFail(e2)
    ELSE [mediatype |-> mediatype, err |-> ""]

\* mediatype = strings.TrimSpace(strings.ToLower(base))
parseBase(v, base, mediatype) ==
    parseResult(mediatype, checkMediaTypeDisposition(mediatype),
                parseParams(SliceFrom(v, Len(base))))

\* mime.ParseMediaType: the lower-cased, trimmed base media type, or an error
ParseMediaType(v) == parseBase(v, CutBase(v), TrimSpace(ToLower(CutBase(v))))

(***************************************************************************)
(* errors                                                                  *)
(***************************************************************************)
Nil == [type |-> "nil"]

\* fmt.Errorf(format, args...)
Errorf(format, args) == [type |-> "error", format |-> format, args |-> args]

\* caddy.APIError{HTTPStatus: status, Err: err}
APIError(status, err) == [type |-> "APIError", HTTPStatus |-> status, Err |-> err]

StatusMethodNotAllowed == 405
StatusBadRequest == 400

(***************************************************************************)
(* The adapter registry and the adapters (external collaborators).         *)
(***************************************************************************)
Yaml == <<"y","a","m","l">>
Toml == <<"t","o","m","l">>
Json == <<"j","s","o","n">>
VndApiJson == <<"v","n","d",".","a","p","i","+">> \o Json

\* the names an adapter may be registered under; Toml never is
AdapterNames == {Yaml, VndApiJson}

\* caddyconfig.GetAdapter(name): nil (FALSE) when no adapter has that name
GetAdapter(reg, name) == name \in reg

\* cfgAdapter.Adapt(body, options): a deterministic conversion that rejects an
\* empty document, wraps the others, and warns about a document starting "w"
Adapt(name, body, options) ==
    IF body = <<>>
    THEN [result |-> <<>>, warnings |-> <<>>, err |-> Errorf("empty config", <<>>)]
    ELSE [result |-> IF name = Yaml THEN <<"{">> \o body \o <<"}">>
                                    ELSE <<"[">> \o body \o <<"]">>,
          warnings |-> IF body[1] = "w"
                       THEN <<[File |-> "", Line |-> 1, Message |-> "deprecated"]>>
                       ELSE <<>>,
          err |-> Nil]

(***************************************************************************)
(* adaptByContentType                                                      *)
(***************************************************************************)
\* What a call returns (result, warnings, err) together with what it did to
\* the registry and the adapters: the names looked up and the Adapt calls.
AdaptReturn(result, warnings, err, lookups, calls) ==
    [result |-> result, warnings |-> warnings, err |-> err,
     lookups |-> lookups, calls |-> calls]

\* mutant: only the media type application/json counts as JSON
IsJSON_onlyApplication(ct) == ct = <<"a","p","p","l","i","c","a","t","i","o","n","/","j","s","o","n">>

\* line 110: strings.HasSuffix(ct, "/json")
IsJSON(ct) == HasSuffix(ct, <<"/">> \o Json)

PassThrough(body) == AdaptReturn(body, <<>>, Nil, <<>>, <<>>)

\* mutant: the message does not name the adapter
errUnrecognized_noName(adapterName) == Errorf("unrecognized config adapter", <<>>)

\* line 123
errUnrecognized(adapterName) ==
    Errorf("unrecognized config adapter '%s'", <<adapterName>>)

\* lines 126-131: out is what cfgAdapter.Adapt(body, nil) returned
adaptResult(adapterName, body, out) ==
    IF out.err # Nil
    THEN AdaptReturn(<<>>, <<>>,
             Errorf("adapting config using %s adapter: %v", <<adapterName, out.err>>),
             <<adapterName>>,
             <<[adapter |-> adapterName, body |-> body, options |-> Nil]>>)
    ELSE AdaptReturn(out.result, out.warnings, Nil,
             <<adapterName>>,
             <<[adapter |-> adapterName, body |-> body, options |-> Nil]>>)

\* lines 121-126
adaptWith(adapterName, body, reg) ==
    IF ~GetAdapter(reg, adapterName)
    THEN AdaptReturn(<<>>, <<>>, errUnrecognized(adapterName), <<adapterName>>, <<>>)
    ELSE adaptResult(adapterName, body, Adapt(adapterName, body, Nil))

\* lines 115-120
adaptNamed(ct, slashIdx, body, reg) ==
    IF slashIdx < 0
    THEN AdaptReturn(<<>>, <<>>, Errorf("malformed Content-Type", <<>>), <<>>, <<>>)
    ELSE adaptWith(SliceFrom(ct, slashIdx + 1), body, reg)

\* lines 102-115: parsed is what mime.ParseMediaType returned
adaptParsed(parsed, body, reg) ==
    IF parsed.err # ""
    THEN AdaptReturn(<<>>, <<>>,
             APIError(StatusBadRequest,
                      Errorf("invalid Content-Type: %v", <<parsed.err>>)),
             <<>>, <<>>)
    ELSE IF IsJSON(parsed.mediatype) THEN PassThrough(body)
    ELSE adaptNamed(parsed.mediatype, Index(parsed.mediatype, "/"), body, reg)

\* mutant: the empty content type is not treated apart
adaptByContentType_noDefault(contentType, body, reg) ==
    adaptParsed(ParseMediaType(contentType), body, reg)

\* lines 95-132
adaptByContentType(contentType, body, reg) ==
    IF contentType = <<>> THEN PassThrough(body)
    ELSE adaptParsed(ParseMediaType(contentType), body, reg)

(***************************************************************************)
(* Inputs                                                                  *)
(***************************************************************************)
App == <<"a","p","p","l","i","c","a","t","i","o","n">>
Slash == <<"/">>

CtJson == App \o Slash \o Json
CtJsonUpper == <<"A","p","p","l","i","c","a","t","i","o","n","/","J","S","O","N">>
CtJsonCharset == CtJson \o <<";"," ","c","h","a","r","s","e","t","=","u","t","f","-","8">>
CtJsonSpaced == <<" ">> \o CtJson \o <<" ",";">>
CtVndApiJson == App \o Slash \o VndApiJson
CtXJson == <<"t","e","x","t","/","x","-">> \o Json
CtYaml == App \o Slash \o Yaml
CtYamlParam == CtYaml \o <<";","q","=","1">>
CtYamlUpper == App \o Slash \o <<"Y","A","M","L">>
CtToml == App \o Slash \o Toml
CtNoSlash == Yaml
CtBareJson == Json
CtNoSubtype == App \o Slash
CtTwoSlashes == <<"a","/","b","/">> \o Json
CtBadParam == CtYaml \o <<";"," ","c","h","a","r","s","e","t">>
CtDupParam == CtJson \o <<";","a","=","1",";","a","=","2">>
CtNoType == Slash \o Json
CtTextJson == <<"t","e","x","t">> \o Slash \o Json

SampleContentTypes ==
    { <<>>, CtJson, CtJsonUpper, CtJsonCharset, CtJsonSpaced, CtVndApiJson, CtXJson,
      CtYaml, CtYamlParam, CtYamlUpper, CtToml, CtNoSlash, CtBareJson, CtNoSubtype,
      CtTwoSlashes, CtBadParam, CtDupParam, CtNoType, CtTextJson }

\* every string of at most MaxCtLen characters over a small alphabet
CtAlphabet == {"x", "/", ";", " ", "="}
ShortContentTypes == UNION { [1..k -> CtAlphabet] : k \in 0..MaxCtLen }

ContentTypes == SampleContentTypes \cup ShortContentTypes

BodyEmpty == <<>>
BodyA == <<"a">>
BodyW == <<"w","1">>
Bodies == {BodyEmpty, BodyA, BodyW}

Registries == SUBSET AdapterNames

\* the registry of the handler runs: yaml has an adapter, toml has none
HandlerRegistries == {{Yaml}}

(***************************************************************************)
(* State                                                                   *)
(*   registry  the names with a registered adapter                         *)
(*   reqs      the requests and the position of each one's handler         *)
(*   pool      bufPool: the buffers sitting in the pool                    *)
(*   bufs      the contents of every bytes.Buffer                          *)
(*   log       what was sent to the "admin.api.load" logger                *)
(*   call      a direct call of adaptByContentType and its return          *)
(***************************************************************************)
Reqs == 1..NumReqs

\* a handler holds at most one buffer, so NumReqs buffers are enough
BufIds == 1..NumReqs

MethodPost == "POST"
Methods == {MethodPost, "GET"}

\* the values r.Header.Get("Content-Type") takes in the handler; <<>> is what
\* it gives for an absent header as well as for an empty one
Headers == {<<>>, CtJson, CtYaml, CtToml, CtNoSlash, CtNoSubtype}

Pending == [type |-> "pending"]
NoAdapt == [result |-> <<>>, warnings |-> <<>>, err |-> Nil, lookups |-> <<>>, calls |-> <<>>]

\* r.Body before the handler has read it: a stream, whose bytes (or whose
\* failure) the handler learns when io.Copy reads it
Unread == <<"(unread)">>

\* a request as it arrives, its handler not yet started
NewRequest(method, header) ==
    [method |-> method, header |-> header, body |-> Unread,
     pc |-> "check", buf |-> 0, bodyRef |-> "none", own |-> <<>>,
     adCalled |-> FALSE, ad |-> NoAdapt, marshal |-> "none",
     ret |-> Pending, respCT |-> <<>>, written |-> <<>>, trace |-> <<>>]

Requests == { NewRequest(m, h) : m \in Methods, h \in Headers }

Idle == [state |-> "idle"]

\* Request 1 is any request. The requests handled beside it carry no
\* Content-Type: handlers meet only in the pool, and what a handler does to
\* the pool and to its buffer does not depend on the header.
Init ==
    /\ registry \in HandlerRegistries
    /\ reqs \in [Reqs -> Requests]
    /\ \A i \in Reqs \ {1} : reqs[i].header = <<>>
    /\ pool = {}
    /\ bufs = [b \in BufIds |-> <<>>]
    /\ log = <<>>
    /\ call = Idle

(***************************************************************************)
(* handleAdapt, one action per step of handler i                           *)
(***************************************************************************)
\* the handler is between bufPool.Get and bufPool.Put
Holding(i) == reqs[i].pc \in {"reset", "read", "adapt", "write", "put"}

\* the bytes the local slice `body` refers to: buf.Bytes() shares the buffer's
\* memory, a converted result is memory of its own
BodyBytes(i) ==
    IF reqs[i].bodyRef = "buf" THEN bufs[reqs[i].buf] ELSE reqs[i].own

Step(i, pc, event) ==
    [reqs[i] EXCEPT !.pc = pc, !.trace = Append(@, event)]

\* mutant: the method is not checked
MethodAllowed_any(method) == TRUE

\* line 48: r.Method != http.MethodPost
MethodAllowed(method) == method = MethodPost

\* lines 48-53
MethodCheck(i) ==
    /\ reqs[i].pc = "check"
    /\ reqs' = [reqs EXCEPT ![i] =
                  IF MethodAllowed(reqs[i].method)
                  THEN [@ EXCEPT !.pc = "get"]
                  ELSE [@ EXCEPT !.pc = "done",
                          !.ret = APIError(StatusMethodNotAllowed,
                                           Errorf("method not allowed", <<>>))]]
    /\ UNCHANGED <<registry, pool, bufs, log, call>>

\* mutant: the pool hands out b and goes on holding it
PoolTake_keep(b) == pool' = pool

\* sync.Pool.Get hands out b, which it held, and holds it no longer
PoolTake(b) == pool' = pool \ {b}

\* the buffers that are neither pooled nor held: memory New can allocate
FreeBufs == BufIds \ (pool \cup { reqs[j].buf : j \in { k \in Reqs : Holding(k) } })

\* line 55, bufPool.Get(): any pooled buffer, as it was put, or a buffer from New
PoolGet(i) ==
    /\ reqs[i].pc = "get"
    /\ \/ \E b \in pool :
            /\ PoolTake(b)
            /\ bufs' = bufs
            /\ reqs' = [reqs EXCEPT ![i] = [Step(i, "reset", "get") EXCEPT !.buf = b]]
       \/ /\ FreeBufs # {}
          /\ LET b == CHOOSE x \in FreeBufs : \A y \in FreeBufs : x <= y IN
               /\ bufs' = [bufs EXCEPT ![b] = <<>>]
               /\ reqs' = [reqs EXCEPT ![i] = [Step(i, "reset", "new") EXCEPT !.buf = b]]
          /\ pool' = pool
    /\ UNCHANGED <<registry, log, call>>

\* mutant: the buffer is not reset after Get
BufReset_skip(i) ==
    /\ reqs[i].pc = "reset"
    /\ reqs' = [reqs EXCEPT ![i] = Step(i, "read", "reset")]
    /\ UNCHANGED <<registry, pool, bufs, log, call>>

\* lines 56-57: buf.Reset(), and bufPool.Put(buf) is deferred
BufReset(i) ==
    /\ reqs[i].pc = "reset"
    /\ bufs' = [bufs EXCEPT ![reqs[i].buf] = <<>>]
    /\ reqs' = [reqs EXCEPT ![i] = Step(i, "read", "reset")]
    /\ UNCHANGED <<registry, pool, log, call>>

\* lines 59-66: io.Copy(buf, r.Body) appends what it reads to the buffer.
\* Either the whole body arrives, or the read fails after a part of it.
ReadBody(i) ==
    /\ reqs[i].pc = "read"
    /\ \E b \in Bodies :
         \/ /\ bufs' = [bufs EXCEPT ![reqs[i].buf] = @ \o b]
            /\ reqs' = [reqs EXCEPT ![i] =
                          [Step(i, "adapt", "read") EXCEPT !.body = b, !.bodyRef = "buf"]]
         \/ \E n \in 0..Len(b) :
              /\ bufs' = [bufs EXCEPT ![reqs[i].buf] = @ \o SubSeq(b, 1, n)]
              /\ reqs' = [reqs EXCEPT ![i] =
                            [Step(i, "put", "readfail") EXCEPT
                               !.ret = APIError(StatusBadRequest,
                                          Errorf("reading request body: %v", <<"io error">>))]]
    /\ UNCHANGED <<registry, pool, log, call>>

\* mutant: the dispatcher's error is returned as it is
DispatchError_bare(err) == err

\* lines 73-76: a dispatch failure becomes the handler's error
DispatchError(err) == APIError(StatusBadRequest, err)

\* mutant: a failure to serialize the warnings becomes the handler's error
MarshalWarnings_fatal(r, fails) ==
    IF fails
    THEN [r EXCEPT !.marshal = "failed",
                   !.ret = APIError(500, Errorf("json: marshal", <<>>))]
    ELSE [r EXCEPT !.marshal = "ok"]

\* lines 78-83: json.Marshal(warnings); its failure is logged and dropped
MarshalWarnings(r, fails) ==
    IF fails THEN [r EXCEPT !.marshal = "failed"] ELSE [r EXCEPT !.marshal = "ok"]

\* mutant: the result is not assigned to body
TakeResult_forgot(r) == r

\* line 84: body = result. A pass-through result is the slice it was given.
TakeResult(r) ==
    IF r.ad.calls = <<>> THEN r
    ELSE [r EXCEPT !.bodyRef = "own", !.own = r.ad.result]

LogEntry(err) == [logger |-> "admin.api.load", level |-> "error", msg |-> err]

\* lines 72-85: ad is what adaptByContentType returned
Dispatched(i, r, ad) ==
    IF ad.err # Nil
    THEN /\ reqs' = [reqs EXCEPT ![i] =
                       [r EXCEPT !.pc = "put", !.ret = DispatchError(ad.err)]]
         /\ log' = log
    ELSE IF Len(ad.warnings) > 0
    THEN \E fails \in BOOLEAN :
           /\ reqs' = [reqs EXCEPT ![i] =
                         [TakeResult(MarshalWarnings(r, fails)) EXCEPT !.pc = "write"]]
           /\ log' = IF fails
                     THEN Append(log, LogEntry(Errorf("json: marshal", <<>>)))
                     ELSE log
    ELSE /\ reqs' = [reqs EXCEPT ![i] = [TakeResult(r) EXCEPT !.pc = "write"]]
         /\ log' = log

\* lines 70-71
DispatchCall(i, ad) ==
    Dispatched(i, [reqs[i] EXCEPT !.adCalled = TRUE, !.ad = ad], ad)

\* lines 70-85
Dispatch(i) ==
    /\ reqs[i].pc = "adapt"
    /\ IF reqs[i].header = <<>>
       THEN /\ reqs' = [reqs EXCEPT ![i] = [@ EXCEPT !.pc = "write"]]
            /\ log' = log
       ELSE DispatchCall(i, adaptByContentType(reqs[i].header, BodyBytes(i), registry))
    /\ UNCHANGED <<registry, pool, bufs, call>>

\* lines 87-90: the header, the write, return nil
WriteResponse(i) ==
    /\ reqs[i].pc = "write"
    /\ reqs' = [reqs EXCEPT ![i] =
                  [Step(i, "put", "write") EXCEPT
                     !.respCT = CtJson,
                     !.written = Append(@, BodyBytes(i)),
                     !.ret = Nil]]
    /\ UNCHANGED <<registry, pool, bufs, log, call>>

\* mutant: the buffer is put back on the success path only
DeferredPut_onSuccess(i) ==
    /\ reqs[i].pc = "put"
    /\ IF reqs[i].ret = Nil
       THEN /\ pool' = pool \cup {reqs[i].buf}
            /\ reqs' = [reqs EXCEPT ![i] = Step(i, "done", "put")]
       ELSE /\ pool' = pool
            /\ reqs' = [reqs EXCEPT ![i] = [@ EXCEPT !.pc = "done"]]
    /\ UNCHANGED <<registry, bufs, log, call>>

\* line 57, run as the handler returns: bufPool.Put(buf)
DeferredPut(i) ==
    /\ reqs[i].pc = "put"
    /\ pool' = pool \cup {reqs[i].buf}
    /\ reqs' = [reqs EXCEPT ![i] = Step(i, "done", "put")]
    /\ UNCHANGED <<registry, bufs, log, call>>

\* sync.Pool drops pooled items at garbage collection
PoolGC ==
    /\ \E b \in pool :
         /\ pool' = pool \ {b}
         /\ bufs' = [bufs EXCEPT ![b] = <<>>]
    /\ UNCHANGED <<registry, reqs, log, call>>

handleAdapt(i) ==
    \/ MethodCheck(i)
    \/ PoolGet(i)
    \/ BufReset(i)
    \/ ReadBody(i)
    \/ Dispatch(i)
    \/ WriteResponse(i)
    \/ DeferredPut(i)

Next == (\E i \in Reqs : handleAdapt(i)) \/ PoolGC

Spec == Init /\ [][Next]_vars

(***************************************************************************)
(* adaptByContentType called on its own                                    *)
(***************************************************************************)
\* a direct call adaptByContentType(contentType, body)
CallAdapt ==
    /\ call.state = "called"
    /\ call' = [call EXCEPT !.state = "returned",
                  !.ret = adaptByContentType(call.contentType, call.body, registry)]
    /\ UNCHANGED <<registry, reqs, pool, bufs, log>>

AdaptInit ==
    /\ registry \in Registries
    /\ reqs = [i \in Reqs |-> NewRequest(MethodPost, <<>>)]
    /\ pool = {}
    /\ bufs = [b \in BufIds |-> <<>>]
    /\ log = <<>>
    /\ call \in { [state |-> "called", contentType |-> c, body |-> b, ret |-> NoAdapt] :
                    c \in ContentTypes, b \in Bodies }

AdaptNext == CallAdapt

AdaptSpec == AdaptInit /\ [][AdaptNext]_vars

(***************************************************************************)
(* Properties                                                              *)
(***************************************************************************)
Returned == call.state = "returned"

\* a return that is the pass-through of body: the same bytes, no warnings, no
\* error, no adapter looked up and none invoked
IsPassThrough(ret, body) ==
    /\ ret.result = body
    /\ ret.warnings = <<>>
    /\ ret.err = Nil
    /\ ret.lookups = <<>>
    /\ ret.calls = <<>>

\* the subtype of a parsed media type, what follows its "/"; <<>> when the
\* content type did not parse or its media type has no "/"
SubtypeOfParsed(parsed) ==
    IF parsed.err = "" /\ Index(parsed.mediatype, "/") >= 0
    THEN SliceFrom(parsed.mediatype, Index(parsed.mediatype, "/") + 1)
    ELSE <<>>

\* the subtype of a content type; <<>> when it is not well-formed
SubtypeOf(contentType) ==
    IF contentType = <<>> THEN <<>> ELSE SubtypeOfParsed(ParseMediaType(contentType))

\* the subtype of each Content-Type header of the handler runs
HeaderSubtype == [h \in Headers |-> SubtypeOf(h)]

\* the positions of seq that hold one of the events
Positions(seq, events) == { k \in 1..Len(seq) : seq[k] \in events }

C1_PassedThrough(subtype) ==
    (Returned /\ subtype # <<>> /\ HasSuffix(subtype, Json))
    => IsPassThrough(call.ret, call.body)

\* C1 as stated: a content type whose subtype ends in "json" (application/json,
\* application/vnd.api+json) is passed through, no adapter looked up or invoked.
C1_SubtypeEndingInJson == C1_PassedThrough(SubtypeOf(call.contentType))

C1_ExactlyJson(subtype) ==
    /\ (Returned /\ subtype = Json) => IsPassThrough(call.ret, call.body)
    /\ (Returned /\ subtype # Json /\ HasSuffix(subtype, Json))
       => call.ret.lookups = <<subtype>>

\* C1 as amended: a content type whose subtype is exactly "json", in any case
\* and with any parameters, is passed through with no adapter looked up or
\* invoked; a longer subtype that ends in "json" is looked up as an adapter name.
C1_SubtypeJson == C1_ExactlyJson(SubtypeOf(call.contentType))

C1_Witness ==
    /\ Returned
    /\ call.contentType = CtTextJson
    /\ call.body = BodyW
    /\ call.ret.result = BodyW
    /\ call.ret.lookups = <<>>

\* C2: with an empty or absent Content-Type the body is passed through:
\* adaptByContentType returns the same bytes, no warnings, no error and touches
\* no adapter, and a POST whose body was read answers with success and writes
\* the request body, byte for byte, without calling the dispatcher.
C2_EmptyContentType ==
    /\ \A b \in Bodies : IsPassThrough(adaptByContentType(<<>>, b, registry), b)
    /\ \A i \in Reqs :
         (reqs[i].method = MethodPost /\ reqs[i].header = <<>>
            /\ reqs[i].body # Unread /\ reqs[i].pc \in {"put", "done"})
         => /\ reqs[i].ret = Nil
            /\ reqs[i].written = <<reqs[i].body>>
            /\ ~reqs[i].adCalled
            /\ reqs[i].ad.lookups = <<>> /\ reqs[i].ad.calls = <<>>

C2_Witness ==
    \E i \in Reqs :
      /\ reqs[i].pc = "done"
      /\ reqs[i].header = <<>>
      /\ reqs[i].body = BodyW
      /\ reqs[i].ret = Nil
      /\ reqs[i].written = <<BodyW>>

\* the dispatcher has returned to handler i
AdaptReturned(i) == reqs[i].adCalled

C3_Adapted(r, name) ==
    (name # <<>> /\ name # Json /\ name \in registry)
    => /\ r.ad.lookups = <<name>>
       /\ r.ad.calls = <<[adapter |-> name, body |-> r.body, options |-> Nil]>>
       /\ Adapt(name, r.body, Nil).err = Nil
          => /\ r.ad.err = Nil
             /\ r.ad.result = Adapt(name, r.body, Nil).result
             /\ r.ad.warnings = Adapt(name, r.body, Nil).warnings
             /\ r.pc \in {"put", "done"}
                => (r.ret = Nil /\ r.written = <<Adapt(name, r.body, Nil).result>>)

\* C3: for a well-formed content type that is not JSON and names a registered
\* adapter, that adapter is invoked exactly once, with the request body as it
\* was read and no options; when it succeeds the dispatcher returns its output
\* and its warnings unchanged, and the handler writes exactly that output.
C3_RegisteredAdapter ==
    \A i \in Reqs : AdaptReturned(i) => C3_Adapted(reqs[i], HeaderSubtype[reqs[i].header])

C3_Witness ==
    \E i \in Reqs :
      /\ reqs[i].pc = "done"
      /\ reqs[i].header = CtYaml
      /\ reqs[i].body = BodyW
      /\ Len(reqs[i].ad.calls) = 1
      /\ reqs[i].written = << <<"{", "w", "1", "}">> >>

\* C4: a request whose method is not POST fails with "method not allowed" and
\* status 405 before any other effect: its body is not read, no buffer is taken
\* from the pool, no adapter is touched, nothing is written to the response.
C4_MethodNotAllowed ==
    \A i \in Reqs :
      (reqs[i].method # MethodPost /\ reqs[i].pc # "check")
      => /\ reqs[i].pc = "done"
         /\ reqs[i].ret = APIError(405, Errorf("method not allowed", <<>>))
         /\ reqs[i].trace = <<>>
         /\ reqs[i].buf = 0
         /\ reqs[i].body = Unread
         /\ ~reqs[i].adCalled
         /\ reqs[i].written = <<>>
         /\ reqs[i].respCT = <<>>

C4_Witness ==
    \E i \in Reqs :
      /\ reqs[i].method = "GET"
      /\ reqs[i].header = CtYaml
      /\ reqs[i].pc = "done"
      /\ reqs[i].ret.HTTPStatus = 405

C5_Unrecognized(name) ==
    (Returned /\ name # <<>> /\ name # Json /\ name \notin registry)
    => /\ call.ret.err.type = "error"
       /\ call.ret.err.format = "unrecognized config adapter '%s'"
       /\ call.ret.err.args = <<name>>
       /\ call.ret.result = <<>>
       /\ call.ret.warnings = <<>>
       /\ call.ret.calls = <<>>

\* C5: for a well-formed content type that is not JSON and whose adapter name
\* is not in the registry, adaptByContentType fails with an "unrecognized
\* config adapter" error that carries the name, returns no output and no
\* warnings, and invokes no adapter.
C5_UnrecognizedAdapter == C5_Unrecognized(SubtypeOf(call.contentType))

C5_Witness ==
    /\ Returned
    /\ call.contentType = CtToml
    /\ call.ret.err.type = "error"
    /\ call.ret.err.args = <<Toml>>

\* C6: every failure of the dispatcher reaches the caller as an error of status
\* 400 that carries the dispatcher's error, with nothing written, also when the
\* dispatcher's own error has no status (the media type without "/"); and a
\* handled request ends in exactly one of: success with the body written once,
\* status 400 with nothing written, status 405 with nothing written.
C6_DispatchFailure ==
    \A i \in Reqs :
      /\ (AdaptReturned(i) /\ reqs[i].ad.err # Nil)
         => /\ reqs[i].pc \in {"put", "done"}
            /\ reqs[i].ret = APIError(400, reqs[i].ad.err)
            /\ reqs[i].written = <<>>
            /\ reqs[i].respCT = <<>>
      /\ reqs[i].pc = "done"
         => \/ /\ reqs[i].ret = Nil
               /\ Len(reqs[i].written) = 1
            \/ /\ reqs[i].ret.type = "APIError"
               /\ reqs[i].ret.HTTPStatus \in {400, 405}
               /\ reqs[i].written = <<>>

C6_Witness ==
    \E i \in Reqs :
      /\ reqs[i].pc = "done"
      /\ reqs[i].header = CtNoSlash
      /\ reqs[i].ad.err = Errorf("malformed Content-Type", <<>>)
      /\ reqs[i].ret.HTTPStatus = 400
      /\ reqs[i].written = <<>>

\* C7: between its checkout and its checkin a buffer belongs to one request:
\* it is not in the pool, no other in-flight request holds it, and the bytes
\* the request read into it are still there when the request writes them.
C7_ExclusiveBuffer ==
    \A i \in Reqs :
      Holding(i)
      => /\ reqs[i].buf \in BufIds
         /\ reqs[i].buf \notin pool
         /\ \A j \in Reqs \ {i} : Holding(j) => reqs[j].buf # reqs[i].buf
         /\ reqs[i].pc \in {"adapt", "write"} => bufs[reqs[i].buf] = reqs[i].body
         /\ (reqs[i].pc = "put" /\ reqs[i].ret = Nil /\ reqs[i].ad.calls = <<>>)
            => reqs[i].written = <<reqs[i].body>>

C7_Witness ==
    /\ reqs[1].pc = "write" /\ reqs[2].pc = "write"
    /\ reqs[1].header = <<>> /\ reqs[2].header = <<>>
    /\ reqs[1].body = BodyA /\ reqs[2].body = BodyW
    /\ reqs[1].buf # reqs[2].buf

\* C8 as stated: a buffer is emptied before it is put back, so that no buffer
\* sitting in the pool holds the bytes of an earlier request.
C8_PooledBuffersEmpty == \A b \in pool : bufs[b] = <<>>

\* C8 as amended: a buffer is emptied at checkout, before the body is read into
\* it, so the bytes a handler takes as its body are exactly the bytes it read;
\* the buffer is not emptied at checkin, and it sits in the pool holding what
\* the request that put it there had read.
C8_ResetAtCheckout ==
    \A i \in Reqs :
      /\ reqs[i].pc = "read" => bufs[reqs[i].buf] = <<>>
      /\ (reqs[i].pc \in {"adapt", "write", "put"} /\ reqs[i].bodyRef = "buf")
         => BodyBytes(i) = reqs[i].body
      /\ (reqs[i].pc = "done" /\ reqs[i].body # Unread /\ reqs[i].buf \in pool
            /\ \A j \in Reqs \ {i} : reqs[j].buf # reqs[i].buf)
         => bufs[reqs[i].buf] = reqs[i].body

C8_Witness ==
    /\ reqs[1].pc = "done" /\ reqs[1].body = BodyW
    /\ reqs[2].pc = "adapt" /\ reqs[2].body = BodyA
    /\ reqs[2].trace = <<"get", "reset", "read">>
    /\ reqs[2].buf = reqs[1].buf
    /\ bufs[reqs[2].buf] = BodyA

\* C9: a handler that checked a buffer out checks it in exactly once, on every
\* exit path, as its last step and so after the response was written; a buffer
\* is not in the pool while its handler is still to write; a handler that took
\* no buffer puts none back.
C9_CheckinOnEveryPath ==
    \A i \in Reqs :
      /\ Positions(reqs[i].trace, {"get", "new"}) \subseteq {1}
      /\ reqs[i].pc # "done" => Positions(reqs[i].trace, {"put"}) = {}
      /\ reqs[i].pc = "done"
         => /\ reqs[i].method = MethodPost
               => /\ Positions(reqs[i].trace, {"get", "new"}) = {1}
                  /\ Positions(reqs[i].trace, {"put"}) = {Len(reqs[i].trace)}
                  /\ reqs[i].ret = Nil
                     => Positions(reqs[i].trace, {"write"}) = {Len(reqs[i].trace) - 1}
            /\ reqs[i].method # MethodPost => reqs[i].trace = <<>>
      /\ reqs[i].pc = "write" => reqs[i].buf \notin pool

C9_Witness ==
    /\ reqs[2].pc = "done" /\ reqs[2].trace = <<"new", "reset", "readfail", "put">>
    /\ reqs[1].pc = "done" /\ reqs[1].ad.err # Nil
    /\ reqs[1].trace = <<"get", "reset", "read", "put">>
    /\ reqs[1].ret.HTTPStatus = 400 /\ reqs[2].ret.HTTPStatus = 400

\* C10: when the adapter succeeds with warnings, serializing them does not
\* change the outcome: whether it succeeds or fails the handler returns
\* success, sets the content type to JSON and writes the adapter's output; a
\* failure is only logged.
C10_WarningsDoNotFail ==
    /\ \A i \in Reqs :
         (AdaptReturned(i) /\ reqs[i].ad.err = Nil /\ Len(reqs[i].ad.warnings) > 0)
         => /\ reqs[i].marshal \in {"ok", "failed"}
            /\ reqs[i].pc \in {"write", "put", "done"}
            /\ reqs[i].pc = "write" => reqs[i].ret = Pending
            /\ reqs[i].pc \in {"put", "done"}
               => /\ reqs[i].ret = Nil
                  /\ reqs[i].respCT = CtJson
                  /\ reqs[i].written = <<reqs[i].ad.result>>
    /\ Len(log) = Cardinality({ i \in Reqs : reqs[i].marshal = "failed" })

C10_Witness ==
    \E i \in Reqs :
      /\ reqs[i].pc = "done"
      /\ reqs[i].marshal = "failed"
      /\ Len(log) >= 1
      /\ reqs[i].ret = Nil
      /\ reqs[i].respCT = CtJson
      /\ reqs[i].written = << <<"{", "w", "1", "}">> >>

====
